---- MODULE Spec2Model ----
(***************************************************************************)
(* EnvironmentalAnalyzer.analyzeScript and executeAndMonitor (refactored   *)
(* analyzer) together with ProcessMonitoringStrategy.monitor, as one       *)
(* Node.js event loop: Spec, and FairSpec with timers and events           *)
(* delivered.  Beside them, on the same state: the analyzer's constructor  *)
(* (ConstructSpec), the two getGrade methods (GradeSpec),                  *)
(* MockMonitoringStrategy (MockSpec) and the legacy analyzer's             *)
(* analyzeScript (LegacySpec).                                             *)
(*                                                                         *)
(* Every action is one macrotask of the event loop (a timer callback, a    *)
(* child-process event, the completion of a pidusage call) followed by the *)
(* promise reactions it queues: the microtasks run to completion before    *)
(* the next macrotask, so the continuation of executeAndMonitor after an   *)
(* await is part of the action that settles the awaited promise.           *)
(***************************************************************************)
EXTENDS Integers, Sequences, FiniteSets, TLC

\* ------------------------------------------------------------------ bounds
\* the clock stops advancing here (time is counted in milliseconds)
MaxTime == 4
\* stats.cpu is drawn from 0..MaxCpu
MaxCpu == 1
\* stats.memory is drawn from {0, 1 MB, .., MaxMemMB MB} (in bytes)
MaxMemMB == 1
\* this.config.maxExecutionTime of the analyzer under analysis
maxExecutionTime == 3
\* this.interval of the monitoring strategy (config.monitoringInterval)
interval == 1

\* the constructor's options are drawn from -1 .. MaxOption, or left out
MaxOption == 3
\* mockData has at most MaxMockLen points, cpu and memory in 0 .. MaxMockValue
MaxMockLen == 2
MaxMockValue == 2
\* legacy monitorProcess gives up capDelay after maxExecutionTime (1000 ms
\* in the code, scaled to the range of the clock)
capDelay == 1
\* legacy monitorProcess starts at most MaxSamplerCalls pidusage calls
MaxSamplerCalls == 2

\* ------------------------------------------------------- program constants
MsPerSecond == 1000
BytesPerMB == 1048576
\* the defaults of AnalyzerConfig
DefaultEmissionFactor == 400
DefaultMaxExecutionTime == 60000
DefaultMonitoringInterval == 50
\* the eco score runs from 0 to MaxScore
MaxScore == 100

\* ------------------------------------------------------------- arithmetic
\* JavaScript numbers that come out of a division are kept as exact
\* fractions <<numerator, denominator>> in lowest terms.
RECURSIVE GCD(_, _)
GCD(a, b) == IF b = 0 THEN a ELSE GCD(b, a % b)
Rat(n, d) == LET g == GCD(n, d) IN <<n \div g, d \div g>>
RatLeq(a, b) == a[1] * b[2] <= b[1] * a[2]
RatAdd(a, b) == Rat(a[1] * b[2] + b[1] * a[2], a[2] * b[2])
RatDivInt(a, n) == Rat(a[1], a[2] * n)
RatMax(a, b) == IF RatLeq(b, a) THEN a ELSE b
IntMax(a, b) == IF a >= b THEN a ELSE b
Zero == Rat(0, 1)

VARIABLES
  now,                \* the clock (performance.now() and Date.now()), ms
  pc,                 \* position of analyzeScript / executeAndMonitor
  childProcess,       \* "null" | "running" | "exited" | "nopid"
  exitStatus,         \* <<>> or <<[code, signal]>> of the exited child
  killed,             \* childProcess.killed
  errorPending,       \* the 'error' event of a failed spawn is queued
  closeSeen,          \* the 'close' listener has run
  deadlineArmed,      \* the setTimeout of timeoutPromise is pending
  raceResult,         \* <<>> or <<v>>: what Promise.race settled with
  returned,           \* the values executeAndMonitor has returned
  returnedTimeline,   \* the returned timeline as the caller receives it
  peakCpuUsage,       \* closure variable of executeAndMonitor
  peakMemoryUsage,    \* closure variable of executeAndMonitor (MB)
  monitorCalls,       \* how often monitoringStrategy.monitor was called
  monitoringPromise,  \* <<>> (pending) or <<[status, value]>>
  monitoringInterval, \* the setInterval of monitor is active
  nextTickAt,         \* when the interval is due next
  inflight,           \* pidusage calls that have not returned yet
  timeline,           \* the monitor's timeline array
  totalCpu,           \* monitor: running sum of cpu
  totalMemory,        \* monitor: running sum of memoryMB
  samples,            \* monitor: number of samples
  unhandled,          \* monitoringPromise is rejected and nothing handles it
  deadlineBeforeClose,\* history: the deadline callback ran before 'close'
  exitedAt,           \* history: when the child really ended (-1: not yet)
  closedAt,           \* history: when the 'close' listener ran (-1: not yet)
  ev,                 \* history: the handler that ran last
  scriptPath,         \* analyzeScript's argument, as validation found it
  analysisPromise,    \* <<>> (pending) or the settlement of analyzeScript
  options,            \* the options object given to the constructor
  config,             \* <<>> or <<this.config>> (AnalyzerConfig)
  thrown,             \* <<>> or <<message>>: what the constructor threw
  grade,              \* <<>> or <<[impl, score, letter]>>: a getGrade call
  mockData,           \* <<>> or <<this.mockData>> of a MockMonitoringStrategy
  executionPromise,   \* legacy: the promise of executeWithTimeout
  capArmed            \* legacy: the setTimeout of monitorProcess is pending

vars == <<now, pc, childProcess, exitStatus, killed, errorPending, closeSeen,
          deadlineArmed, raceResult, returned, returnedTimeline,
          peakCpuUsage, peakMemoryUsage, monitorCalls, monitoringPromise,
          monitoringInterval, nextTickAt, inflight, timeline, totalCpu,
          totalMemory, samples, unhandled, deadlineBeforeClose, exitedAt,
          closedAt, ev, scriptPath, analysisPromise, options, config, thrown,
          grade, mockData, executionPromise, capArmed>>

procVars == <<childProcess, exitStatus, killed, errorPending, closeSeen,
              exitedAt, closedAt>>
monVars == <<monitoringInterval, nextTickAt, inflight, timeline, totalCpu,
             totalMemory, samples>>
peakVars == <<peakCpuUsage, peakMemoryUsage>>
\* what executeAndMonitor and its monitor never touch
libVars == <<options, config, thrown, grade, mockData, executionPromise,
             capArmed>>

\* ------------------------------------------------------------ input sets
ExitCodes == {0, 1}
Signals == {"SIGTERM"}
\* (code, signal) of 'close': one of the two is null; a null code is
\* written -1, a null signal "null"
ExitStatuses == [code : ExitCodes, signal : {"null"}]
                  \cup [code : {-1}, signal : Signals]
CpuValues == 0 .. MaxCpu
MemoryValues == {k * BytesPerMB : k \in 0 .. MaxMemMB}
SampleErrors == {"ESRCH", "OTHER"}

\* --------------------------------------------------------------- promises
\* A promise settles once: resolve/reject on a settled promise is a no-op.
SettleLast(cur, v) == <<v>>
Settle(cur, v) == IF cur = <<>> THEN <<v>> ELSE cur

\* ------------------------------------------------- values of the outcomes
\* 'close' listener: the value processPromise is resolved with
CloseResultNonZeroFails(code, signal, t) ==
  IF signal # "null"
  THEN [success |-> FALSE,
        error |-> [msg |-> "Process terminated by signal", signal |-> signal],
        executionTime |-> t]
  ELSE IF code # 0
       THEN [success |-> FALSE,
             error |-> [msg |-> "Process error"],
             executionTime |-> t]
       ELSE [success |-> TRUE,
             executionTime |-> t,
             peakCpuUsage |-> peakCpuUsage,
             peakMemoryUsage |-> peakMemoryUsage,
             exitCode |-> code]

CloseResult(code, signal, t) ==
  IF signal # "null"
  THEN [success |-> FALSE,
        error |-> [msg |-> "Process terminated by signal", signal |-> signal],
        executionTime |-> t]
  ELSE [success |-> TRUE,
        executionTime |-> t,
        peakCpuUsage |-> peakCpuUsage,
        peakMemoryUsage |-> peakMemoryUsage,
        exitCode |-> code]

\* 'error' listener
ErrorResult(t) ==
  [success |-> FALSE, error |-> [msg |-> "Process error"], executionTime |-> t]

\* the setTimeout callback of timeoutPromise
TimeoutResultElapsed ==
  [success |-> FALSE,
   error |-> [msg |-> "Process timed out after", ms |-> maxExecutionTime],
   executionTime |-> now]

TimeoutResult ==
  [success |-> FALSE,
   error |-> [msg |-> "Process timed out after", ms |-> maxExecutionTime],
   executionTime |-> maxExecutionTime]

\* the outer catch
CatchResult(t) ==
  [success |-> FALSE, error |-> [msg |-> "Failed to start process"],
   executionTime |-> t]

\* what monitor resolves with; the timeline field is the array itself (a
\* reference), the other fields are numbers copied at the resolve
MonitorValue(tc, tm, n) ==
  [timeline |-> "monitor.timeline",
   avgCpuUsage |-> IF n > 0 THEN Rat(tc, n) ELSE Zero,
   avgMemoryUsage |-> IF n > 0 THEN RatDivInt(tm, n) ELSE Zero,
   samples |-> n]

\* { ...processResult, ...monitoringResult }
Merged(p, m) == m @@ p

\* x || 0
OrZero(x) == IF x = Zero THEN Zero ELSE x

\* the inner catch: process result with defaults
Fallback(p, pkCpu, pkMem) ==
  [avgCpuUsage |-> OrZero(Rat(pkCpu, 1)),
   avgMemoryUsage |-> OrZero(pkMem),
   samples |-> 1,
   timeline |-> "[]"] @@ p

\* The four variants of the outcome, as a caller tells them apart
Kind(v) ==
  IF v.success THEN "Completed"
  ELSE CASE v.error.msg = "Process terminated by signal" -> "Signaled"
         [] v.error.msg = "Process timed out after" -> "TimedOut"
         [] OTHER -> "SpawnFailed"

\* ---------------------------------------------------------- analyzeScript
\* x || 0 on an integer field
OrZeroInt(x) == IF x = 0 THEN 0 ELSE x

\* new PerformanceMetrics(data) as calculateMetrics builds it.  energyKwh
\* and co2Grams (floating-point products of these fields with the
\* coefficients of the configuration) are left out.
PerformanceMetrics(data) ==
  [executionTime |-> OrZeroInt(data.executionTime),
   peakCpuUsage |-> OrZeroInt(data.peakCpuUsage),
   avgCpuUsage |-> OrZero(data.avgCpuUsage),
   peakMemoryUsage |-> OrZero(data.peakMemoryUsage),
   avgMemoryUsage |-> OrZero(data.avgMemoryUsage),
   samples |-> OrZeroInt(data.samples)]

\* new AnalysisResult(data): success, error, metrics and timeline with
\* their defaults; null is <<>>, a value v is <<v>>.  The fields that
\* only name the script or repeat the configuration are left out.
AnalysisResult(success, error, metrics, tl) ==
  [success |-> success, error |-> error, metrics |-> metrics,
   timeline |-> tl]

\* lines 56-105: what analyzeScript makes of executeAndMonitor's value
AnalysisOfZeroExit(executionResult) ==
  IF ~executionResult.success \/ executionResult.exitCode # 0
  THEN AnalysisResult(FALSE, <<[msg |-> "Process error"]>>, <<>>, "[]")
  ELSE AnalysisResult(TRUE, <<>>, <<PerformanceMetrics(executionResult)>>,
                      executionResult.timeline)

AnalysisOf(executionResult) ==
  IF ~executionResult.success
  THEN AnalysisResult(FALSE, <<executionResult.error>>, <<>>, "[]")
  ELSE AnalysisResult(TRUE, <<>>, <<PerformanceMetrics(executionResult)>>,
                      executionResult.timeline)

\* the catch of analyzeScript (lines 107-115); path.basename(scriptPath)
\* throws a TypeError when scriptPath is not a string, and the async
\* function's promise is then rejected
CatchOf(path, message) ==
  IF path = "nonString"
  THEN [status |-> "rejected", reason |-> "ERR_INVALID_ARG_TYPE"]
  ELSE [status |-> "fulfilled",
        value |-> AnalysisResult(FALSE, <<[msg |-> message]>>, <<>>, "[]")]

\* ----------------------------------------------------- executeAndMonitor
\* executeAndMonitor returns v; analyzeScript, which awaits it, goes on in
\* the same turn of the event loop and returns its AnalysisResult
Return(v, tl) ==
  /\ pc' = "done"
  /\ returned' = Append(returned, v)
  /\ returnedTimeline' = tl
  /\ analysisPromise' = <<[status |-> "fulfilled", value |-> AnalysisOf(v)]>>

\* lines 193-215, run when Promise.race settles with p; mp and tl are the
\* monitor's promise and timeline at that moment
AfterRace(p, mp, tl) ==
  IF ~p.success
  THEN Return(p, <<>>) /\ UNCHANGED unhandled
  ELSE IF mp = <<>>
       THEN /\ pc' = "awaitMon"
            /\ UNCHANGED <<returned, returnedTimeline, analysisPromise, unhandled>>
       ELSE IF mp[1].status = "fulfilled"
            THEN Return(Merged(p, mp[1].value), tl) /\ UNCHANGED unhandled
            ELSE /\ Return(Fallback(p, peakCpuUsage, peakMemoryUsage), <<>>)
                 /\ unhandled' = FALSE

\* lines 199-215, run when monitoringPromise settles while it is awaited;
\* pk are the closure's peaks at that moment
AfterMonitorRestamp(mp, tl, pkCpu, pkMem) ==
  IF mp[1].status = "fulfilled"
  THEN Return([Merged(raceResult[1], mp[1].value)
                 EXCEPT !.executionTime = now], tl)
  ELSE Return([Fallback(raceResult[1], pkCpu, pkMem)
                 EXCEPT !.executionTime = now], <<>>)

AfterMonitor(mp, tl, pkCpu, pkMem) ==
  IF mp[1].status = "fulfilled"
  THEN Return(Merged(raceResult[1], mp[1].value), tl)
  ELSE Return(Fallback(raceResult[1], pkCpu, pkMem), <<>>)

\* a handler settles one of the raced promises with p; only the first
\* settlement resumes executeAndMonitor
RaceSettlesEvery(p) ==
  /\ raceResult' = Settle(raceResult, p)
  /\ AfterRace(p, monitoringPromise, timeline)

RaceSettles(p) ==
  /\ raceResult' = Settle(raceResult, p)
  /\ IF pc = "racing" /\ raceResult = <<>>
     THEN AfterRace(p, monitoringPromise, timeline)
     ELSE UNCHANGED <<pc, returned, returnedTimeline, analysisPromise, unhandled>>

\* the monitor settles its promise with s (a [status, value] record)
MonitorSettles(s, tl, pkCpu, pkMem) ==
  /\ monitoringPromise' = Settle(monitoringPromise, s)
  /\ IF monitoringPromise # <<>>
     THEN UNCHANGED <<pc, returned, returnedTimeline, analysisPromise, unhandled>>
     ELSE IF pc = "awaitMon"
          THEN /\ AfterMonitor(<<s>>, tl, pkCpu, pkMem)
               /\ UNCHANGED unhandled
          ELSE /\ unhandled' = (unhandled \/ s.status = "rejected")
               /\ UNCHANGED <<pc, returned, returnedTimeline, analysisPromise>>

Init ==
  /\ now = 0
  /\ pc = "idle"
  /\ childProcess = "null"
  /\ exitStatus = <<>>
  /\ killed = FALSE
  /\ errorPending = FALSE
  /\ closeSeen = FALSE
  /\ deadlineArmed = FALSE
  /\ raceResult = <<>>
  /\ returned = <<>>
  /\ returnedTimeline = <<>>
  /\ peakCpuUsage = 0
  /\ peakMemoryUsage = Zero
  /\ monitorCalls = 0
  /\ monitoringPromise = <<>>
  /\ monitoringInterval = FALSE
  /\ nextTickAt = 0
  /\ inflight = {}
  /\ timeline = <<>>
  /\ totalCpu = 0
  /\ totalMemory = Zero
  /\ samples = 0
  /\ unhandled = FALSE
  /\ deadlineBeforeClose = FALSE
  /\ exitedAt = -1
  /\ closedAt = -1
  /\ ev = "init"
  /\ scriptPath = "none"
  /\ analysisPromise = <<>>
  /\ options = <<>>
  /\ config = <<>>
  /\ thrown = <<>>
  /\ grade = <<>>
  /\ mockData = <<>>
  /\ executionPromise = <<>>
  /\ capArmed = FALSE

ScriptPaths == {"missing", "nonString"}

\* validateFilePath(scriptPath) answers false (fs.access failed, or threw
\* on an argument that is no path): analyzeScript throws 'Script not
\* found' into its own catch and never calls executeAndMonitor
ScriptNotFound(path) ==
  /\ pc = "idle"
  /\ pc' = "caught"
  /\ scriptPath' = path
  /\ analysisPromise' = <<CatchOf(path, "Script not found")>>
  /\ ev' = "notFound"
  /\ UNCHANGED <<now, procVars, deadlineArmed, raceResult, returned,
                 returnedTimeline, peakVars, monitorCalls, monitoringPromise,
                 monVars, unhandled, deadlineBeforeClose, libVars>>

\* spawn() throws synchronously: the outer catch returns
SpawnThrows ==
  /\ pc = "idle"
  /\ Return(CatchResult(now), <<>>)
  /\ scriptPath' = "found"
  /\ ev' = "spawnThrows"
  /\ UNCHANGED libVars
  /\ UNCHANGED <<now, procVars, deadlineArmed, raceResult, peakVars,
                 monitorCalls, monitoringPromise, monVars, unhandled,
                 deadlineBeforeClose>>

\* spawn() returns a ChildProcess: with a pid, or (ENOENT) without one and
\* with an 'error' event queued by process.nextTick.  The monitor is
\* started, the listeners are attached, the deadline timer is set and
\* executeAndMonitor suspends at Promise.race.
Spawn(ok) ==
  /\ pc = "idle"
  /\ pc' = "racing"
  /\ childProcess' = IF ok THEN "running" ELSE "nopid"
  /\ errorPending' = ~ok
  /\ monitorCalls' = monitorCalls + 1
  /\ monitoringInterval' = TRUE
  /\ nextTickAt' = now + interval
  /\ deadlineArmed' = TRUE
  /\ scriptPath' = "found"
  /\ ev' = "spawn"
  /\ UNCHANGED libVars
  /\ UNCHANGED <<now, exitStatus, killed, closeSeen, raceResult, returned,
                 returnedTimeline, analysisPromise, peakVars, monitoringPromise, inflight,
                 timeline, totalCpu, totalMemory, samples, unhandled,
                 deadlineBeforeClose, exitedAt, closedAt>>

\* The failed spawn's nextTick: 'error' is emitted and, in the same call,
\* 'close'.  processPromise is resolved by the 'error' listener; the
\* resolve of the 'close' listener that follows is a no-op.
SpawnErrorEvent ==
  /\ errorPending
  /\ errorPending' = FALSE
  /\ closeSeen' = TRUE
  /\ closedAt' = now
  /\ RaceSettles(ErrorResult(now))
  /\ ev' = "error"
  /\ UNCHANGED <<scriptPath, libVars>>
  /\ UNCHANGED <<now, childProcess, exitStatus, killed, deadlineArmed,
                 peakVars, monitorCalls, monitoringPromise, monVars,
                 deadlineBeforeClose, exitedAt>>

\* the operating system: the child ends, by itself or by a signal
ChildExit(st) ==
  /\ childProcess = "running"
  /\ childProcess' = "exited"
  /\ exitStatus' = <<st>>
  /\ exitedAt' = now
  /\ ev' = "exit"
  /\ UNCHANGED <<scriptPath, libVars>>
  /\ UNCHANGED <<now, pc, killed, errorPending, closeSeen, deadlineArmed,
                 raceResult, returned, returnedTimeline, analysisPromise, peakVars,
                 monitorCalls, monitoringPromise, monVars, unhandled,
                 deadlineBeforeClose, closedAt>>

\* childProcess.on('close', ...)
Close ==
  /\ childProcess = "exited"
  /\ ~closeSeen
  /\ closeSeen' = TRUE
  /\ RaceSettles(CloseResult(exitStatus[1].code, exitStatus[1].signal, now))
  /\ closedAt' = now
  /\ ev' = "close"
  /\ UNCHANGED <<scriptPath, libVars>>
  /\ UNCHANGED <<now, childProcess, exitStatus, killed, errorPending,
                 deadlineArmed, peakVars, monitorCalls, monitoringPromise,
                 monVars, deadlineBeforeClose, exitedAt>>

\* childProcess.kill('SIGTERM'): the signal is sent and killed is set when
\* the child still has a handle; otherwise kill returns false
KillAlways(cp, k) == TRUE

Kill(cp, k) == IF cp = "running" THEN TRUE ELSE k

\* the setTimeout callback of timeoutPromise
Deadline ==
  /\ deadlineArmed
  /\ ~errorPending
  /\ now >= maxExecutionTime
  /\ deadlineArmed' = FALSE
  /\ killed' = IF childProcess # "null" /\ ~killed
               THEN Kill(childProcess, killed) ELSE killed
  /\ RaceSettles(TimeoutResult)
  /\ deadlineBeforeClose' = ~closeSeen
  /\ ev' = "deadline"
  /\ UNCHANGED <<scriptPath, libVars>>
  /\ UNCHANGED <<now, childProcess, exitStatus, errorPending, closeSeen,
                 peakVars, monitorCalls, monitoringPromise, monVars,
                 exitedAt, closedAt>>

\* ---------------------------------------- ProcessMonitoringStrategy.monitor
\* if (elapsedTime >= maxDuration): the loop's own end
MaxDurationExceeded(elapsedTime, maxDuration) == elapsedTime > maxDuration

MaxDurationNever(elapsedTime, maxDuration) == FALSE

MaxDurationReached(elapsedTime, maxDuration) == elapsedTime >= maxDuration

\* the setInterval callback up to its first await
Tick ==
  /\ monitoringInterval
  /\ ~errorPending
  /\ now >= nextTickAt
  /\ LET elapsedTime == now
     IN IF MaxDurationReached(elapsedTime, maxExecutionTime)
        THEN /\ monitoringInterval' = FALSE
             /\ MonitorSettles([status |-> "fulfilled",
                                value |-> MonitorValue(totalCpu, totalMemory, samples)],
                               timeline, peakCpuUsage, peakMemoryUsage)
             /\ ev' = "tickEnd"
             /\ UNCHANGED <<nextTickAt, inflight>>
        ELSE /\ inflight' = inflight \cup
                  {[t |-> elapsedTime, alive |-> childProcess = "running"]}
             /\ nextTickAt' = now + interval
             /\ ev' = "tick"
             /\ UNCHANGED <<monitoringInterval, monitoringPromise, pc,
                            returned, returnedTimeline, analysisPromise, unhandled>>
  /\ UNCHANGED <<now, procVars, deadlineArmed, raceResult, peakVars,
                 monitorCalls, timeline, totalCpu, totalMemory, samples,
                 deadlineBeforeClose, scriptPath, libVars>>

\* new TimelinePoint(timeSeconds, stats.cpu, memoryMB)
TimelinePoint(elapsedTime, cpu, memory) ==
  [timeSeconds |-> Rat(elapsedTime, MsPerSecond),
   cpu |-> cpu,
   memoryMB |-> Rat(memory, BytesPerMB)]

\* pidusage(pid) returns stats: lines 46-62
SampleOk(c, cpu, memory) ==
  /\ c \in inflight
  /\ c.alive
  /\ inflight' = inflight \ {c}
  /\ LET point == TimelinePoint(c.t, cpu, memory)
     IN /\ timeline' = Append(timeline, point)
        /\ totalCpu' = totalCpu + cpu
        /\ totalMemory' = RatAdd(totalMemory, point.memoryMB)
        /\ samples' = samples + 1
        /\ peakCpuUsage' = IntMax(peakCpuUsage, cpu)
        /\ peakMemoryUsage' = RatMax(peakMemoryUsage, point.memoryMB)
  /\ ev' = "sampleOk"
  /\ UNCHANGED <<scriptPath, libVars>>
  /\ UNCHANGED <<now, pc, procVars, deadlineArmed, raceResult, returned,
                 returnedTimeline, analysisPromise, monitorCalls, monitoringPromise,
                 monitoringInterval, nextTickAt, unhandled,
                 deadlineBeforeClose>>

\* what the catch of the interval callback settles the promise with
CatchSettlementNoESRCH(code) == [status |-> "rejected", reason |-> code]

CatchSettlement(code) ==
  IF code = "ESRCH"
  THEN [status |-> "fulfilled",
        value |-> MonitorValue(totalCpu, totalMemory, samples)]
  ELSE [status |-> "rejected", reason |-> code]

\* pidusage(pid) rejects: lines 64-78.  ESRCH needs the process to be gone.
SampleFails(c, code) ==
  /\ c \in inflight
  /\ code = "ESRCH" => childProcess = "exited"
  /\ inflight' = inflight \ {c}
  /\ monitoringInterval' = FALSE
  /\ MonitorSettles(CatchSettlement(code), timeline, peakCpuUsage,
                    peakMemoryUsage)
  /\ ev' = IF code = "ESRCH" THEN "sampleESRCH" ELSE "sampleError"
  /\ UNCHANGED <<scriptPath, libVars>>
  /\ UNCHANGED <<now, procVars, deadlineArmed, raceResult, peakVars,
                 monitorCalls, nextTickAt, timeline, totalCpu, totalMemory,
                 samples, deadlineBeforeClose>>

\* time passes
Advance ==
  /\ pc # "idle"
  /\ ~errorPending
  /\ now < MaxTime
  /\ now' = now + 1
  /\ ev' = "advance"
  /\ UNCHANGED <<scriptPath, libVars>>
  /\ UNCHANGED <<pc, procVars, deadlineArmed, raceResult, returned,
                 returnedTimeline, analysisPromise, peakVars, monitorCalls, monitoringPromise,
                 monVars, unhandled, deadlineBeforeClose>>

Next ==
  \/ \E path \in ScriptPaths : ScriptNotFound(path)
  \/ SpawnThrows
  \/ \E ok \in BOOLEAN : Spawn(ok)
  \/ SpawnErrorEvent
  \/ \E st \in ExitStatuses : ChildExit(st)
  \/ Close
  \/ Deadline
  \/ Tick
  \/ \E c \in inflight, cpu \in CpuValues, memory \in MemoryValues :
       SampleOk(c, cpu, memory)
  \/ \E c \in inflight, code \in SampleErrors : SampleFails(c, code)
  \/ Advance

Spec == Init /\ [][Next]_vars

\* Timers and child-process events are delivered and the clock moves on;
\* nothing is assumed about a pidusage call ever returning, nor about the
\* child ever ending by itself.
Fairness ==
  /\ WF_vars(SpawnErrorEvent)
  /\ WF_vars(Close)
  /\ WF_vars(Deadline)
  /\ WF_vars(Tick)
  /\ WF_vars(Advance)

FairSpec == Spec /\ Fairness

\* ------------------------------------------- EnvironmentalAnalyzer constructor
\* an option is <<>> (not given) or <<n>>
OptionValues == {<<>>} \cup {<<n>> : n \in -1 .. MaxOption}
Options == [emissionFactor : OptionValues, maxExecutionTime : OptionValues,
            monitoringInterval : OptionValues]

\* options.x || d
OrDefault(x, d) == IF x = <<>> \/ x[1] = 0 THEN d ELSE x[1]

\* new AnalyzerConfig(options); the two power coefficients, which validate
\* does not look at, are left out
AnalyzerConfig(opts) ==
  [emissionFactor |-> OrDefault(opts.emissionFactor, DefaultEmissionFactor),
   maxExecutionTime |->
     OrDefault(opts.maxExecutionTime, DefaultMaxExecutionTime),
   monitoringInterval |->
     OrDefault(opts.monitoringInterval, DefaultMonitoringInterval)]

\* config.validate(): <<>> when it returns true, <<message>> when it throws
Validate(cfg) ==
  IF cfg.emissionFactor <= 0 THEN <<"Emission factor must be positive">>
  ELSE IF cfg.maxExecutionTime <= 0
       THEN <<"Max execution time must be positive">>
       ELSE IF cfg.monitoringInterval <= 0
            THEN <<"Monitoring interval must be positive">>
            ELSE <<>>

\* new EnvironmentalAnalyzer(opts): the analyzer exists iff nothing is thrown
Construct(opts) ==
  /\ options = <<>>
  /\ options' = <<opts>>
  /\ config' = <<AnalyzerConfig(opts)>>
  /\ thrown' = Validate(AnalyzerConfig(opts))
  /\ ev' = "construct"
  /\ UNCHANGED <<now, pc, procVars, deadlineArmed, raceResult, returned,
                 returnedTimeline, peakVars, monitorCalls, monitoringPromise,
                 monVars, unhandled, deadlineBeforeClose, scriptPath,
                 analysisPromise, grade, mockData, executionPromise,
                 capArmed>>

ConstructNext == \E opts \in Options : Construct(opts)

ConstructSpec == Init /\ [][ConstructNext]_vars

\* ------------------------------------------------------------------ getGrade
\* EcoScoreCalculationStrategy.getGrade(score)
GetGrade(score) ==
  IF score >= 90 THEN [letter |-> "A+", color |-> "#22c55e"]
  ELSE IF score >= 80 THEN [letter |-> "A", color |-> "#16a34a"]
  ELSE IF score >= 70 THEN [letter |-> "B+", color |-> "#65a30d"]
  ELSE IF score >= 60 THEN [letter |-> "B", color |-> "#ca8a04"]
  ELSE IF score >= 50 THEN [letter |-> "C+", color |-> "#ea580c"]
  ELSE IF score >= 40 THEN [letter |-> "C", color |-> "#dc2626"]
  ELSE [letter |-> "F", color |-> "#991b1b"]

\* getGrade(score) of the legacy analyzer
LegacyGetGrade(score) ==
  IF score >= 90 THEN [letter |-> "A+", color |-> "#22c55e"]
  ELSE IF score >= 80 THEN [letter |-> "A", color |-> "#16a34a"]
  ELSE IF score >= 70 THEN [letter |-> "B", color |-> "#65a30d"]
  ELSE IF score >= 60 THEN [letter |-> "C", color |-> "#ca8a04"]
  ELSE IF score >= 50 THEN [letter |-> "D", color |-> "#ea580c"]
  ELSE [letter |-> "F", color |-> "#dc2626"]

Scores == 0 .. MaxScore

\* a call of one of the two getGrade methods
Grade(impl, score) ==
  /\ grade = <<>>
  /\ grade' = <<[impl |-> impl, score |-> score,
                 grade |-> IF impl = "legacy" THEN LegacyGetGrade(score)
                           ELSE GetGrade(score)]>>
  /\ ev' = "getGrade"
  /\ UNCHANGED <<now, pc, procVars, deadlineArmed, raceResult, returned,
                 returnedTimeline, peakVars, monitorCalls, monitoringPromise,
                 monVars, unhandled, deadlineBeforeClose, scriptPath,
                 analysisPromise, options, config, thrown, mockData,
                 executionPromise, capArmed>>

GradeNext ==
  \E impl \in {"EcoScoreCalculationStrategy", "legacy"}, score \in Scores :
    Grade(impl, score)

GradeSpec == Init /\ [][GradeNext]_vars

\* ------------------------------------------------- MockMonitoringStrategy
\* a / b on JavaScript numbers: 0 / 0 is NaN, n / 0 is Infinity
NaN == <<0, 0>>
Infinity == <<1, 0>>
JsDiv(a, b) == IF b = 0 THEN (IF a = 0 THEN NaN ELSE Infinity) ELSE Rat(a, b)

MockPoints == [cpu : 0 .. MaxMockValue, memory : 0 .. MaxMockValue]
MockDatas == UNION {[1 .. n -> MockPoints] : n \in 0 .. MaxMockLen}

\* this.mockData.reduce((sum, p) => sum + p.cpu, 0), and for p.memory
RECURSIVE ReduceCpu(_)
ReduceCpu(data) ==
  IF data = <<>> THEN 0 ELSE data[1].cpu + ReduceCpu(Tail(data))
RECURSIVE ReduceMemory(_)
ReduceMemory(data) ==
  IF data = <<>> THEN 0 ELSE data[1].memory + ReduceMemory(Tail(data))

\* this.mockData.map((point, index) => new TimelinePoint(index * 0.1, ..))
MockTimeline(data) ==
  [i \in 1 .. Len(data) |->
     [timeSeconds |-> Rat(i - 1, 10),
      cpu |-> data[i].cpu,
      memoryMB |-> Rat(data[i].memory, 1)]]

\* new MockMonitoringStrategy(data).monitor(pid, maxDuration, onData): the
\* promise is created and the timer is set
MockMonitor(data) ==
  /\ mockData = <<>>
  /\ mockData' = <<data>>
  /\ monitorCalls' = monitorCalls + 1
  /\ ev' = "mockMonitor"
  /\ UNCHANGED <<now, pc, procVars, deadlineArmed, raceResult, returned,
                 returnedTimeline, peakVars, monitoringPromise, monVars,
                 unhandled, deadlineBeforeClose, scriptPath, analysisPromise,
                 options, config, thrown, grade, executionPromise, capArmed>>

\* the setTimeout callback of the mock's monitor
MockTimeout ==
  /\ mockData # <<>>
  /\ monitoringPromise = <<>>
  /\ timeline' = MockTimeline(mockData[1])
  /\ monitoringPromise' =
       <<[status |-> "fulfilled",
          value |-> [timeline |-> "monitor.timeline",
                     avgCpuUsage |->
                       JsDiv(ReduceCpu(mockData[1]), Len(mockData[1])),
                     avgMemoryUsage |->
                       JsDiv(ReduceMemory(mockData[1]), Len(mockData[1])),
                     samples |-> Len(mockData[1])]]>>
  /\ ev' = "mockTimeout"
  /\ UNCHANGED <<now, pc, procVars, deadlineArmed, raceResult, returned,
                 returnedTimeline, peakVars, monitorCalls, monitoringInterval,
                 nextTickAt, inflight, totalCpu, totalMemory, samples,
                 unhandled, deadlineBeforeClose, scriptPath, analysisPromise,
                 libVars>>

MockNext ==
  \/ \E data \in MockDatas : MockMonitor(data)
  \/ MockTimeout

MockSpec == Init /\ [][MockNext]_vars

\* ------------------------------------------ legacy analyzer: analyzeScript
\* what the legacy analyzer never touches
legacyFrame == <<raceResult, returned, returnedTimeline, monitorCalls,
                 unhandled, deadlineBeforeClose, options, config, thrown,
                 grade, mockData>>

\* processTimeline(timeline): a new array, one point for each point
ProcessTimelineSmoothed(tl) ==
  [i \in 1 .. IntMax(Len(tl) - 2, 0) |->
     [timestamp |-> tl[i + 2].timestamp,
      cpuSmooth |-> Rat(tl[i].cpu + tl[i + 1].cpu + tl[i + 2].cpu, 3)]]

ProcessTimeline(tl) ==
  [i \in 1 .. Len(tl) |->
     [timestamp |-> tl[i].timestamp,
      cpu |-> tl[i].cpu,
      memory |-> tl[i].memory,
      memoryMB |-> Rat(tl[i].memory, BytesPerMB),
      timeSeconds |-> Rat(tl[i].timestamp, MsPerSecond),
      cpuSmooth |->
        IF i >= 3 THEN Rat(tl[i - 2].cpu + tl[i - 1].cpu + tl[i].cpu, 3)
        ELSE Rat(tl[i].cpu, 1),
      memorySmooth |->
        IF i >= 3
        THEN Rat(tl[i - 2].memory + tl[i - 1].memory + tl[i].memory, 3)
        ELSE Rat(tl[i].memory, 1)]]

\* lines 61-107: the success result.  energyKwh, co2Grams, the projections,
\* the equivalences and the eco score (floating-point arithmetic on these
\* metrics) and the captured output are left out.
LegacyResult(code, t) ==
  [success |-> TRUE,
   metrics |->
     [executionTime |-> t,
      peakCpuUsage |-> peakCpuUsage,
      avgCpuUsage |-> IF samples > 0 THEN Rat(totalCpu, samples) ELSE Zero,
      peakMemoryUsage |-> RatDivInt(peakMemoryUsage, BytesPerMB),
      avgMemoryUsage |->
        RatDivInt(IF samples > 0 THEN RatDivInt(totalMemory, samples)
                  ELSE Zero, BytesPerMB),
      samples |-> samples],
   timeline |-> ProcessTimeline(timeline),
   exitCode |-> code]

\* lines 114-120: the failure result of the catch
LegacyFailure(message) == [success |-> FALSE, error |-> message]

\* analyzeScript returns v
LegacyReturn(v) ==
  /\ pc' = "done"
  /\ analysisPromise' = <<[status |-> "fulfilled", value |-> v]>>

\* lines 58-59 and 109-121, run when the promise of executeWithTimeout
\* settles with s while analyzeScript awaits it; k is childProcess.killed
\* at that moment.  The catch asks for termination unless killed is set.
LegacyAfterExecution(s, k) ==
  IF s.status = "rejected"
  THEN /\ killed' = IF ~k THEN Kill(childProcess, k) ELSE k
       /\ LegacyReturn(LegacyFailure(s.message))
  ELSE /\ killed' = k
       /\ IF monitoringPromise # <<>>
          THEN LegacyReturn(LegacyResult(s.code, now))
          ELSE pc' = "monWait" /\ UNCHANGED analysisPromise

\* a handler settles the promise of executeWithTimeout with s
ExecutionSettles(s, k) ==
  /\ executionPromise' = Settle(executionPromise, s)
  /\ IF pc = "execWait" /\ executionPromise = <<>>
     THEN LegacyAfterExecution(s, k)
     ELSE killed' = k /\ UNCHANGED <<pc, analysisPromise>>

\* monitorProcess resolves; analyzeScript goes on if it awaits it
LegacyMonitorSettles ==
  /\ monitoringPromise' =
       Settle(monitoringPromise, [status |-> "fulfilled"])
  /\ IF pc = "monWait" /\ monitoringPromise = <<>>
     THEN LegacyReturn(LegacyResult(executionPromise[1].code, now))
     ELSE UNCHANGED <<pc, analysisPromise>>

\* fs.access(scriptPath) rejects (or throws): the catch returns a failure
\* with no child to terminate; path.basename throws on a non-string
LegacyNotFound(path) ==
  /\ pc = "idle"
  /\ pc' = "done"
  /\ scriptPath' = path
  /\ analysisPromise' =
       <<IF path = "nonString"
         THEN [status |-> "rejected", reason |-> "ERR_INVALID_ARG_TYPE"]
         ELSE [status |-> "fulfilled", value |-> LegacyFailure("ENOENT")]>>
  /\ ev' = "notFound"
  /\ UNCHANGED <<now, procVars, deadlineArmed, peakVars, monitoringPromise,
                 monVars, executionPromise, capArmed, legacyFrame>>

\* spawn() throws synchronously
LegacySpawnThrows ==
  /\ pc = "idle"
  /\ scriptPath' = "found"
  /\ LegacyReturn(LegacyFailure("spawn"))
  /\ ev' = "spawnThrows"
  /\ UNCHANGED <<now, procVars, deadlineArmed, peakVars, monitoringPromise,
                 monVars, executionPromise, capArmed, legacyFrame>>

\* lines 39-58: spawn() returns a ChildProcess (with a pid, or without one
\* and with 'error' queued); monitorProcess sets its interval and its
\* timer, executeWithTimeout attaches its listeners and sets its timer,
\* and analyzeScript suspends
LegacySpawn(ok) ==
  /\ pc = "idle"
  /\ pc' = "execWait"
  /\ scriptPath' = "found"
  /\ childProcess' = IF ok THEN "running" ELSE "nopid"
  /\ errorPending' = ~ok
  /\ monitoringInterval' = TRUE
  /\ nextTickAt' = now + interval
  /\ capArmed' = TRUE
  /\ deadlineArmed' = TRUE
  /\ ev' = "spawn"
  /\ UNCHANGED <<now, exitStatus, killed, closeSeen, exitedAt, closedAt,
                 peakVars, monitoringPromise, inflight, timeline, totalCpu,
                 totalMemory, samples, executionPromise, analysisPromise,
                 legacyFrame>>

\* the failed spawn's nextTick: 'error' (reject) and then 'close'
LegacyErrorEvent ==
  /\ errorPending
  /\ errorPending' = FALSE
  /\ closeSeen' = TRUE
  /\ closedAt' = now
  /\ ExecutionSettles([status |-> "rejected", message |-> "spawn ENOENT"],
                      killed)
  /\ ev' = "error"
  /\ UNCHANGED <<now, childProcess, exitStatus, exitedAt, deadlineArmed,
                 peakVars, monitoringPromise, monVars, scriptPath, capArmed,
                 legacyFrame>>

\* childProcess.on('close', (code) => resolve({ code, stdout, stderr }))
LegacyClose ==
  /\ childProcess = "exited"
  /\ ~closeSeen
  /\ closeSeen' = TRUE
  /\ closedAt' = now
  /\ ExecutionSettles([status |-> "fulfilled", code |-> exitStatus[1].code],
                      killed)
  /\ ev' = "close"
  /\ UNCHANGED <<now, childProcess, exitStatus, errorPending, exitedAt,
                 deadlineArmed, peakVars, monitoringPromise, monVars,
                 scriptPath, capArmed, legacyFrame>>

\* the setTimeout callback of executeWithTimeout
LegacyTimeout ==
  /\ deadlineArmed
  /\ ~errorPending
  /\ now >= maxExecutionTime
  /\ deadlineArmed' = FALSE
  /\ IF ~killed
     THEN ExecutionSettles([status |-> "rejected", message |-> "timeout"],
                           Kill(childProcess, killed))
     ELSE UNCHANGED <<killed, executionPromise, pc, analysisPromise>>
  /\ ev' = "deadline"
  /\ UNCHANGED <<now, childProcess, exitStatus, errorPending, closeSeen,
                 exitedAt, closedAt, peakVars, monitoringPromise, monVars,
                 scriptPath, capArmed, legacyFrame>>

\* ------------------------------------------ legacy analyzer: monitorProcess
\* the setInterval callback up to its await
LegacyTick ==
  /\ monitoringInterval
  /\ ~errorPending
  /\ now >= nextTickAt
  /\ Cardinality(inflight) + samples < MaxSamplerCalls
  /\ inflight' = inflight \cup {[t |-> now, alive |-> childProcess = "running"]}
  /\ nextTickAt' = now + interval
  /\ ev' = "tick"
  /\ UNCHANGED <<now, pc, procVars, deadlineArmed, peakVars,
                 monitoringPromise, monitoringInterval, timeline, totalCpu,
                 totalMemory, samples, scriptPath, analysisPromise,
                 executionPromise, capArmed, legacyFrame>>

\* pidusage(pid) returns stats: the point is pushed and onSample runs
\* (lines 134-144 and 48-54); memory is kept in bytes
LegacySampleOk(c, cpu, memory) ==
  /\ c \in inflight
  /\ c.alive
  /\ inflight' = inflight \ {c}
  /\ timeline' = Append(timeline,
                        [timestamp |-> now, cpu |-> cpu, memory |-> memory])
  /\ peakCpuUsage' = IntMax(peakCpuUsage, cpu)
  /\ peakMemoryUsage' = RatMax(peakMemoryUsage, Rat(memory, 1))
  /\ totalCpu' = totalCpu + cpu
  /\ totalMemory' = RatAdd(totalMemory, Rat(memory, 1))
  /\ samples' = samples + 1
  /\ ev' = "sampleOk"
  /\ UNCHANGED <<now, pc, procVars, deadlineArmed, monitoringPromise,
                 monitoringInterval, nextTickAt, scriptPath, analysisPromise,
                 executionPromise, capArmed, legacyFrame>>

\* pidusage(pid) rejects, whatever the error: lines 146-149
LegacySampleFails(c) ==
  /\ c \in inflight
  /\ inflight' = inflight \ {c}
  /\ monitoringInterval' = FALSE
  /\ LegacyMonitorSettles
  /\ ev' = "sampleError"
  /\ UNCHANGED <<now, procVars, deadlineArmed, peakVars, nextTickAt,
                 timeline, totalCpu, totalMemory, samples, scriptPath,
                 executionPromise, capArmed, legacyFrame>>

\* the setTimeout callback of monitorProcess: lines 152-155
LegacyCap ==
  /\ capArmed
  /\ ~errorPending
  /\ now >= maxExecutionTime + capDelay
  /\ capArmed' = FALSE
  /\ monitoringInterval' = FALSE
  /\ LegacyMonitorSettles
  /\ ev' = "cap"
  /\ UNCHANGED <<now, procVars, deadlineArmed, peakVars, nextTickAt,
                 inflight, timeline, totalCpu, totalMemory, samples,
                 scriptPath, executionPromise, legacyFrame>>

LegacyNext ==
  \/ \E path \in ScriptPaths : LegacyNotFound(path)
  \/ LegacySpawnThrows
  \/ \E ok \in BOOLEAN : LegacySpawn(ok)
  \/ LegacyErrorEvent
  \/ \E st \in ExitStatuses : ChildExit(st)
  \/ LegacyClose
  \/ LegacyTimeout
  \/ LegacyTick
  \/ \E c \in inflight, cpu \in CpuValues, memory \in MemoryValues :
       LegacySampleOk(c, cpu, memory)
  \/ \E c \in inflight : LegacySampleFails(c)
  \/ LegacyCap
  \/ Advance

LegacySpec == Init /\ [][LegacyNext]_vars

TypeOK ==
  /\ now \in 0 .. MaxTime
  /\ pc \in {"idle", "caught", "racing", "awaitMon", "execWait", "monWait",
            "done"}
  /\ childProcess \in {"null", "running", "exited", "nopid"}
  /\ Len(returned) <= 1
  /\ Len(raceResult) <= 1
  /\ Len(monitoringPromise) <= 1
  /\ samples \in Nat

\* ==================================================================
\* Properties
\* ==================================================================
Outcome == returned[1]
HasOutcome == returned # <<>>
OutcomeKinds == {"Completed", "Signaled", "TimedOut", "SpawnFailed"}

RECURSIVE SumCpu(_)
SumCpu(tl) == IF tl = <<>> THEN 0 ELSE tl[1].cpu + SumCpu(Tail(tl))
RECURSIVE SumMemory(_)
SumMemory(tl) ==
  IF tl = <<>> THEN Zero ELSE RatAdd(tl[1].memoryMB, SumMemory(Tail(tl)))

\* C1: executeAndMonitor returns at most one outcome, of one of the four
\* kinds, with the fields of its kind; it has returned exactly when it is
\* done; and no later event ('close', 'error', the deadline timer) changes
\* the settled race or the returned outcome or adds a second one.
C1_OutcomeShape ==
  /\ Len(returned) <= 1
  /\ (pc = "done") <=> HasOutcome
  /\ HasOutcome =>
       /\ raceResult # <<>> => Kind(Outcome) = Kind(raceResult[1])
       /\ Kind(Outcome) \in OutcomeKinds
       /\ Kind(Outcome) = "Completed" => Outcome.exitCode \in ExitCodes
       /\ Kind(Outcome) = "Signaled" => Outcome.error.signal \in Signals
C1_Stable ==
  /\ HasOutcome => returned' = returned
  /\ raceResult # <<>> => raceResult' = raceResult
C1_ExactlyOneOutcome == [](C1_OutcomeShape) /\ [][C1_Stable]_vars
\* a 'close' that arrives after the timed-out outcome was returned
C1_Witness ==
  /\ HasOutcome
  /\ Kind(Outcome) = "TimedOut"
  /\ ev = "close"

\* C2: if the deadline callback runs before the 'close' listener, the race
\* is settled with the timed-out value and the outcome returned is the
\* timed-out one, whatever 'close' reports afterwards.
C2_DeadlineFirstIsTimedOut ==
  deadlineBeforeClose =>
    /\ raceResult # <<>> /\ Kind(raceResult[1]) = "TimedOut"
    /\ HasOutcome /\ Kind(Outcome) = "TimedOut"
\* the deadline fired first and a 'close' with an exit code came later
C2_Witness ==
  /\ deadlineBeforeClose
  /\ closeSeen
  /\ ev = "close"
  /\ exitStatus[1].signal = "null"
  /\ exitStatus[1].code = 0

\* C3: at the moment executeAndMonitor returns a timed-out outcome the
\* child is no longer running.
C3_TimedOutChildGone ==
  (HasOutcome /\ Kind(Outcome) = "TimedOut" /\ ev = "deadline")
    => childProcess # "running"

\* C4: once executeAndMonitor has returned, the monitor's interval is
\* cleared, its promise is settled and no sampler call is in flight.
C4_MonitorEndedAtReturn ==
  (HasOutcome /\ monitorCalls > 0) =>
    /\ ~monitoringInterval
    /\ monitoringPromise # <<>>
    /\ inflight = {}

\* C5: a failed-to-start outcome means monitor was never called.
C5_SpawnFailedNoMonitor ==
  (HasOutcome /\ Kind(Outcome) = "SpawnFailed") => monitorCalls = 0

\* C6: after executeAndMonitor has returned, monitoringPromise is never
\* rejected without a handler.
C6_NoUnhandledRejection == pc = "done" => ~unhandled

\* C7: a sample that fails with ESRCH clears the interval; if the promise
\* is still pending it is fulfilled (not rejected) with the timeline, the
\* sample count and the averages of the samples collected so far, and a
\* promise that is already settled stays as it is.
C7_Step ==
  ev' = "sampleESRCH" =>
    /\ ~monitoringInterval'
    /\ timeline' = timeline
    /\ monitoringPromise # <<>> => monitoringPromise' = monitoringPromise
    /\ monitoringPromise = <<>> =>
         /\ monitoringPromise' # <<>>
         /\ monitoringPromise'[1].status = "fulfilled"
         /\ LET v == monitoringPromise'[1].value
                n == Len(timeline)
            IN /\ v.timeline = "monitor.timeline"
               /\ v.samples = n
               /\ v.avgCpuUsage =
                    (IF n = 0 THEN Zero ELSE Rat(SumCpu(timeline), n))
               /\ v.avgMemoryUsage =
                    (IF n = 0 THEN Zero
                     ELSE RatDivInt(SumMemory(timeline), n))
C7_EsrchResolves == [][C7_Step]_vars
\* an ESRCH ended a monitor that had collected a sample
C7_Witness ==
  /\ ev = "sampleESRCH"
  /\ now < maxExecutionTime
  /\ monitoringPromise # <<>>
  /\ monitoringPromise[1].status = "fulfilled"
  /\ monitoringPromise[1].value.samples > 0

\* C8: monitor's promise is never rejected: every sampling failure
\* fulfils it with the partial aggregate.
C8_MonitorNeverRejects ==
  monitoringPromise # <<>> => monitoringPromise[1].status = "fulfilled"

\* C9: in every outcome that carries monitoring data the sample count is
\* the length of the timeline the caller receives.
C9_SamplesIsTimelineLength ==
  (HasOutcome /\ Outcome.success) => Outcome.samples = Len(returnedTimeline)

\* C10: in every completed outcome the peaks bound every point of the
\* returned timeline.
C10_PeakBoundsTimeline ==
  (HasOutcome /\ Outcome.success) =>
    \A i \in 1 .. Len(returnedTimeline) :
      /\ returnedTimeline[i].cpu <= Outcome.peakCpuUsage
      /\ RatLeq(returnedTimeline[i].memoryMB, Outcome.peakMemoryUsage)

\* a < b on fractions
RatLess(a, b) == a[1] * b[2] < b[1] * a[2]

\* C11: when executeAndMonitor returns a completed outcome of a run in
\* which at least one sample was taken, avgCpuUsage is the sum of the cpu
\* values of all samples taken divided by their number, and avgMemoryUsage
\* likewise for memory.
C11_Step ==
  (~HasOutcome /\ HasOutcome' /\ returned'[1].success /\ Len(timeline') > 0)
    => /\ returned'[1].avgCpuUsage =
            Rat(SumCpu(timeline'), Len(timeline'))
       /\ returned'[1].avgMemoryUsage =
            RatDivInt(SumMemory(timeline'), Len(timeline'))
C11_AverageIsMean == [][C11_Step]_vars

\* C12: a monitor that has ended without any sample taken is fulfilled
\* with samples = 0, both averages 0 and an empty timeline; and a completed
\* outcome built from a monitor value with samples = 0 has both peaks 0.
C12_NoSampleAllZero ==
  /\ (monitoringPromise # <<>> /\ timeline = <<>>) =>
       /\ monitoringPromise[1].status = "fulfilled"
       /\ monitoringPromise[1].value.samples = 0
       /\ monitoringPromise[1].value.avgCpuUsage = Zero
       /\ monitoringPromise[1].value.avgMemoryUsage = Zero
  /\ (HasOutcome /\ Outcome.success /\ Outcome.timeline = "monitor.timeline"
        /\ Outcome.samples = 0) =>
       /\ returnedTimeline = <<>>
       /\ Outcome.peakCpuUsage = 0
       /\ Outcome.peakMemoryUsage = Zero

\* C13: the monitor's timeline is strictly increasing in timeSeconds.
C13_TimelineIncreasing ==
  \A i, j \in 1 .. Len(timeline) :
    i < j => RatLess(timeline[i].timeSeconds, timeline[j].timeSeconds)

\* C14: once the monitor's promise has settled no point is appended to
\* the timeline and onData does not run (the peaks stay as they are).
C14_Step ==
  monitoringPromise # <<>> =>
    /\ timeline' = timeline
    /\ peakCpuUsage' = peakCpuUsage
    /\ peakMemoryUsage' = peakMemoryUsage
C14_FrozenAfterSettle == [][C14_Step]_vars

\* C15: signaled and timed-out outcomes carry the monitor's aggregate
\* (timeline, averages, peaks, sample count).
AggregateFields ==
  {"timeline", "avgCpuUsage", "avgMemoryUsage", "samples", "peakCpuUsage",
   "peakMemoryUsage"}
C15_FailedOutcomesCarryAggregate ==
  (HasOutcome /\ Kind(Outcome) \in {"Signaled", "TimedOut"})
    => AggregateFields \subseteq DOMAIN Outcome

\* the 'close' listener of a spawned child ran before the deadline callback
CloseFirst == closeSeen /\ childProcess = "exited" /\ ~deadlineBeforeClose

\* C16: when 'close' comes before the deadline, the race settles with the
\* success value carrying the exit code if the child exited without a
\* signal (any exit code), and the outcome, once returned, is Completed
\* with that exit code; if the child was ended by a signal the outcome is
\* returned at once and is Signaled naming that signal.
C16_CloseFirstOutcome ==
  CloseFirst =>
    /\ raceResult # <<>>
    /\ LET st == exitStatus[1]
           r == raceResult[1]
       IN IF st.signal = "null"
          THEN /\ r.success
               /\ r.exitCode = st.code
               /\ HasOutcome =>
                    /\ Kind(Outcome) = "Completed"
                    /\ Outcome.exitCode = st.code
          ELSE /\ HasOutcome
               /\ Kind(Outcome) = "Signaled"
               /\ Outcome.error.signal = st.signal
\* a child that exited with a non-zero code before the deadline
C16_Witness ==
  /\ CloseFirst
  /\ HasOutcome
  /\ Kind(Outcome) = "Completed"
  /\ Outcome.exitCode = 1

\* C17: a timed-out outcome records executionTime = maxExecutionTime.
C17_TimedOutDuration ==
  (HasOutcome /\ Kind(Outcome) = "TimedOut")
    => Outcome.executionTime = maxExecutionTime
\* the deadline callback ran late and returned the timed-out outcome
C17_Witness ==
  /\ HasOutcome
  /\ Kind(Outcome) = "TimedOut"
  /\ ev = "deadline"
  /\ now > maxExecutionTime

\* C18 (as claimed): the execution time of a completed or signaled outcome
\* is the time of the 'close' event, fixed from then on, and within one
\* sampling period of the time the child really ended.
C18_DurationNearExit ==
  (HasOutcome /\ Kind(Outcome) \in {"Completed", "Signaled"}) =>
    /\ Outcome.executionTime = closedAt
    /\ Outcome.executionTime - exitedAt <= interval
    /\ exitedAt - Outcome.executionTime <= interval

\* C18 (amended): the execution time of a completed or signaled outcome is
\* the time from the start of executeAndMonitor to the 'close' listener:
\* the value the race settled with already carries it, the outcome
\* returned later (after waiting for the monitor) carries the same value,
\* and it is never earlier than the time the child really ended.
C18_DurationIsCloseTime ==
  /\ (CloseFirst /\ raceResult # <<>>)
       => raceResult[1].executionTime = closedAt
  /\ (HasOutcome /\ Kind(Outcome) \in {"Completed", "Signaled"}) =>
       /\ Outcome.executionTime = closedAt
       /\ exitedAt <= Outcome.executionTime
       /\ Outcome.executionTime <= now
\* a completed outcome returned by a monitor settlement later than 'close'
C18_Witness ==
  /\ HasOutcome
  /\ Kind(Outcome) = "Completed"
  /\ ev \in {"tickEnd", "sampleESRCH", "sampleError"}
  /\ Outcome.executionTime = closedAt
  /\ closedAt < now
  /\ exitedAt < closedAt

\* C19: the deadline callback requests termination at most once, and when
\* it runs after the child has ended the request is a no-op (killed and
\* the child's state stay as they are); it never replaces the settled race
\* value, and never changes the outcome already returned or adds one.
C19_Step ==
  (deadlineArmed /\ ~deadlineArmed') =>
    /\ childProcess # "running" => killed' = killed
    /\ childProcess' = childProcess
    /\ exitStatus' = exitStatus
    /\ raceResult # <<>> => raceResult' = raceResult
    /\ HasOutcome => returned' = returned /\ pc' = pc
C20_TimerScopedToCall == HasOutcome => ~deadlineArmed

\* C21: once the race has settled (the child's completion or the deadline
\* has been observed), the next tick of the monitor ends its loop: no tick
\* that runs after that leaves the interval active or starts a sample.
C21_StopsAtNextTick ==
  (raceResult # <<>> /\ ev \in {"tick", "tickEnd"}) => ~monitoringInterval

\* C26: at most one sampler call is in flight at any time.
C26_OneSamplerInFlight == Cardinality(inflight) <= 1

\* C28: no sample is started on a tick at which the elapsed time has
\* reached maxDuration: every sampler call in flight and every point of the
\* timeline carries an elapsed time strictly below maxDuration, a tick that
\* samples runs before maxDuration, and a tick at or after maxDuration
\* clears the interval.
C28_NoSampleAtMaxDuration ==
  /\ \A c \in inflight : c.t < maxExecutionTime
  /\ \A i \in 1 .. Len(timeline) :
       RatLess(timeline[i].timeSeconds, Rat(maxExecutionTime, MsPerSecond))
  /\ ev = "tick" => now < maxExecutionTime
  /\ ev = "tickEnd" => (now >= maxExecutionTime /\ ~monitoringInterval)
\* the tick exactly at maxDuration ended a loop that had taken samples
C28_Witness ==
  /\ ev = "tickEnd"
  /\ now = maxExecutionTime
  /\ timeline # <<>>
  /\ inflight # {}

\* C27: with timers and process events delivered, a call of
\* executeAndMonitor that has reached its race eventually returns.  It
\* returns in the deadline callback itself when the deadline wins; and it
\* waits for the monitor only while the monitor's promise is pending and
\* its interval is active, so that the first tick at or after maxDuration
\* (which settles the promise) makes it return.
C27_WaitsOnlyForLiveMonitor ==
  /\ pc = "awaitMon" => (monitoringPromise = <<>> /\ monitoringInterval)
  /\ (ev = "deadline" /\ deadlineBeforeClose) => pc = "done"
  /\ ev = "tickEnd" => pc # "awaitMon"
C27_EventuallyReturns ==
  /\ [](C27_WaitsOnlyForLiveMonitor)
  /\ (pc \in {"racing", "awaitMon"}) ~> (pc = "done")
\* the completed outcome was returned by the tick that ended the monitor
\* while a sampler call had still not returned
C27_Witness ==
  /\ ev = "tickEnd"
  /\ pc = "done"
  /\ Kind(Outcome) = "Completed"
  /\ inflight # {}

\* analyzeScript's AnalysisResult agrees with what happened: success with
\* metrics and no error exactly for a completed outcome of
\* executeAndMonitor; failure with an error message and null metrics for a
\* signaled, timed-out or failed-start outcome and for a script not found
AnalysisMatches ==
  LET r == analysisPromise[1].value
  IN /\ r.success <=> (HasOutcome /\ Kind(Outcome) = "Completed")
     /\ r.success =>
          /\ r.metrics # <<>>
          /\ r.error = <<>>
          /\ r.metrics[1].samples = Outcome.samples
          /\ r.metrics[1].executionTime = Outcome.executionTime
     /\ ~r.success =>
          /\ r.metrics = <<>>
          /\ r.error # <<>>
          /\ r.error[1] = (IF HasOutcome THEN Outcome.error
                           ELSE [msg |-> "Script not found"])

\* C29 (as claimed): analyzeScript never rejects; whenever it has settled
\* it is fulfilled with an AnalysisResult of the shape above.
C29_NeverRejects ==
  analysisPromise # <<>> =>
    (analysisPromise[1].status = "fulfilled" /\ AnalysisMatches)

\* C29 (amended): called with a string as scriptPath, analyzeScript never
\* rejects: it settles exactly when it has left executeAndMonitor or its
\* own validation, and then it is fulfilled with an AnalysisResult of the
\* shape above.  It rejects only for a scriptPath that is not a string.
C29_StringPathNeverRejects ==
  /\ (pc \in {"done", "caught"}) <=> (analysisPromise # <<>>)
  /\ (analysisPromise # <<>> /\ scriptPath # "nonString") =>
       (analysisPromise[1].status = "fulfilled" /\ AnalysisMatches)
  /\ (analysisPromise # <<>> /\ analysisPromise[1].status = "rejected") =>
       scriptPath = "nonString"
\* a run that exited with code 1 and whose monitor was rejected: success
\* with the fallback metrics
C29_Witness ==
  /\ pc = "done"
  /\ Kind(Outcome) = "Completed"
  /\ Outcome.exitCode = 1
  /\ Outcome.timeline = "[]"
  /\ analysisPromise[1].value.success
  /\ analysisPromise[1].value.metrics[1].samples = 1

Constructed == options # <<>> /\ thrown = <<>>

\* C22: every analyzer that is successfully constructed satisfies
\* monitoringInterval > 0, maxExecutionTime > 0 and
\* monitoringInterval < maxExecutionTime.
C22_RequestInvariant ==
  Constructed =>
    /\ config[1].monitoringInterval > 0
    /\ config[1].maxExecutionTime > 0
    /\ config[1].monitoringInterval < config[1].maxExecutionTime

\* C24: a constructor call whose emissionFactor, maxExecutionTime or
\* monitoringInterval option is given and is not positive throws, with the
\* 'must be positive' message of an option that is not positive.
C24_NonPositiveRejected ==
  LET o == options[1]
      bad(x) == x # <<>> /\ x[1] <= 0
  IN (options # <<>> /\ (bad(o.emissionFactor) \/ bad(o.maxExecutionTime)
                           \/ bad(o.monitoringInterval))) =>
       \/ bad(o.emissionFactor)
            /\ thrown = <<"Emission factor must be positive">>
       \/ bad(o.maxExecutionTime)
            /\ thrown = <<"Max execution time must be positive">>
       \/ bad(o.monitoringInterval)
            /\ thrown = <<"Monitoring interval must be positive">>

\* the Eco Score Rating table of the README
ReadmeGrade(score) ==
  IF score >= 90 THEN "A+"
  ELSE IF score >= 80 THEN "A"
  ELSE IF score >= 70 THEN "B"
  ELSE IF score >= 60 THEN "C"
  ELSE IF score >= 50 THEN "D"
  ELSE "F"

\* C23: both getGrade methods give every score in 0..100 the letter of
\* the README table.
C23_GradeIsReadmeGrade ==
  grade # <<>> => grade[1].grade.letter = ReadmeGrade(grade[1].score)

\* C25: for every mockData, the empty one included, the mock's monitor
\* resolves with samples equal to the timeline length and with averages
\* equal to the mean of the given cpu and memory values, 0 when there are
\* none.
C25_MockAveragesAreMeans ==
  (mockData # <<>> /\ monitoringPromise # <<>>) =>
    LET v == monitoringPromise[1].value
        n == Len(mockData[1])
    IN /\ monitoringPromise[1].status = "fulfilled"
       /\ v.samples = Len(timeline)
       /\ v.samples = n
       /\ v.avgCpuUsage =
            (IF n = 0 THEN Zero ELSE Rat(ReduceCpu(mockData[1]), n))
       /\ v.avgMemoryUsage =
            (IF n = 0 THEN Zero ELSE Rat(ReduceMemory(mockData[1]), n))

\* C30: every success result of the legacy analyzeScript has
\* metrics.samples equal to the length of the timeline it returns, also
\* when sampler calls complete after monitorProcess has resolved or after
\* the result was returned.
C30_LegacySamplesIsTimelineLength ==
  (executionPromise # <<>> /\ analysisPromise # <<>>
     /\ analysisPromise[1].status = "fulfilled"
     /\ analysisPromise[1].value.success) =>
    analysisPromise[1].value.metrics.samples =
      Len(analysisPromise[1].value.timeline)
\* a sampler call completed after the success result had been returned
C30_Witness ==
  /\ executionPromise # <<>>
  /\ analysisPromise # <<>>
  /\ analysisPromise[1].status = "fulfilled"
  /\ analysisPromise[1].value.success
  /\ analysisPromise[1].value.metrics.samples > 0
  /\ ev = "sampleOk"
  /\ samples > analysisPromise[1].value.metrics.samples

====
